---- MODULE Spec2Model ----
(***************************************************************************)
(* Personal-Budget-Tracker: the flat-file record store of src/utils.py and *)
(* the Streamlit handlers of src/main.py that call it.                     *)
(*                                                                         *)
(* A CSV file is modelled by what is on disk: whether it exists, whether   *)
(* its header line has been written, and its data lines (one record of     *)
(* cells per line).  A DataFrame is modelled as the sequence of its rows;  *)
(* Python's 0-based row index i is position i+1 of the sequence.           *)
(***************************************************************************)
EXTENDS Integers, Sequences, FiniteSets, TLC

\* Bound: the number of rows the three indexable tables hold together.
MaxRows == 3
\* Bound: how many entries of main.py's category list the model uses.
NumCategories == 2
\* Bound: the number of transactions handed to get_budget_status.
MaxStatusRows == 2
\* Bound: the number of rows of the transactions table two racing callers share.
MaxRaceRows == 2
\* Bound: the number of rows of the stored table whose tags are collected.
MaxTagRows == 2
\* Bound: the number of rows of the table that is filtered.
MaxFilterRows == 2
\* Bound: the number of rows of the table a summary is computed from.
MaxSummaryRows == 2
\* Bound: the number of rows of each table a chart is drawn from.
MaxChartRows == 1
\* Bound: the number of rows, over the three indexable tables, of a session.
MaxUIRows == 2

VARIABLES
    files,          \* kind -> the CSV file of that record kind (data/<kind>.csv)
    last,           \* the last call made: its name, arguments, outcome, and the table before it
    session,        \* st.session_state: kind -> cached DataFrame, or Unset
    pc,             \* caller -> position inside a stepwise read-modify-write call
    local,          \* caller -> the local variables of that call (arguments, df as loaded, df to write)
    committed,      \* the transactions file as the last completed to_csv left it
    now,            \* datetime.now() as a year-month, read by get_budget_status
    tx_in,          \* the transactions DataFrame handed to get_budget_status
    budgets_in,     \* the budgets DataFrame handed to get_budget_status
    budget_status,  \* the DataFrame get_budget_status returned, or Unset
    arg_in,         \* the further argument of the function applied (criteria, a goal, a portfolio)
    result          \* what the last function applied to the inputs returned, or NoResult

vars == <<files, last, session, pc, local, committed, now, tx_in, budgets_in, budget_status,
          arg_in, result>>

-----------------------------------------------------------------------------
(* Values *)

\* pandas' missing value: what read_csv yields for an empty cell.
NaN == "<NaN>"
\* A session_state key that has not been set, or a result not yet computed;
\* and one that holds the DataFrame df.
Unset == [set |-> FALSE, df |-> <<>>]
Held(df) == [set |-> TRUE, df |-> df]

Kinds == {"transactions", "goals", "portfolio", "budgets"}

\* The columns holding text; the other columns hold numbers and dates.
StrCols == {"type", "category", "description", "tags",
            "goal_type", "name", "status", "milestones", "investment_type"}

\* main.py's category list, in order.
AllCategories == <<"Food & Dining", "Transportation", "Housing", "Utilities",
                   "Entertainment", "Shopping", "Healthcare", "Education",
                   "Salary", "Investment", "Other">>
categories == SubSeq(AllCategories, 1, NumCategories)
CategorySet == {categories[i] : i \in 1..Len(categories)}

-----------------------------------------------------------------------------
(* CSV files and DataFrames *)

\* No file at the path: os.path.exists(...) is False.
Missing == [exists |-> FALSE, header |-> FALSE, rows |-> <<>>]

\* DataFrame.to_csv writes a missing value and an empty string alike as an
\* empty cell; every other value as its text.
to_csv_cell(col, v) == IF col \in StrCols /\ v = NaN THEN "" ELSE v
to_csv_row(r) == [col \in DOMAIN r |-> to_csv_cell(col, r[col])]
\* df.to_csv(path, index=False): the complete file, header line and one line per row.
to_csv(df) ==
    [exists |-> TRUE, header |-> TRUE,
     rows |-> [i \in 1..Len(df) |-> to_csv_row(df[i])]]

\* pd.read_csv turns an empty cell into NaN (default na_filter).
read_csv_cell(col, c) == IF col \in StrCols /\ c = "" THEN NaN ELSE c
read_csv_row(r) == [col \in DOMAIN r |-> read_csv_cell(col, r[col])]
\* pd.read_csv(path): fails with EmptyDataError on a file with no header line.
read_csv(f) ==
    [err |-> IF f.header THEN "none" ELSE "EmptyDataError",
     df |-> IF f.header THEN [i \in 1..Len(f.rows) |-> read_csv_row(f.rows[i])]
                        ELSE <<>>]

\* load_<kind>(): creates a header-only file when none exists, then reads it.
load(f) ==
    LET g == IF ~f.exists THEN to_csv(<<>>) ELSE f
        r == read_csv(g)
    IN  [file |-> g, df |-> r.df, err |-> r.err]

load_transactions(f) == load(f)
load_goals(f) == load(f)
load_portfolio(f) == load(f)
load_budgets(f) == load(f)

\* pd.concat([df, new_row], ignore_index=True)
concat(df, rec) == Append(df, rec)

\* df.loc[index, col] = value for every column of the row.  An index that is
\* not a label of df does not fail: pandas enlarges the frame with a new row.
loc_set(df, index, rec) ==
    IF index < Len(df) THEN [df EXCEPT ![index + 1] = rec]
                       ELSE Append(df, rec)

\* Mutant of drop: removes the last row whatever the index.
drop_last(df, index) ==
    IF index < Len(df)
    THEN [err |-> "none", df |-> SubSeq(df, 1, Len(df) - 1)]
    ELSE [err |-> "KeyError", df |-> df]

\* Mutant of drop: a label that is not there is ignored (errors='ignore').
drop_ignore(df, index) ==
    IF index < Len(df)
    THEN [err |-> "none",
          df |-> [i \in 1..(Len(df) - 1) |-> IF i <= index THEN df[i] ELSE df[i + 1]]]
    ELSE [err |-> "none", df |-> df]

\* df.drop(index).reset_index(drop=True): KeyError when index is not a label.
drop(df, index) ==
    IF index < Len(df)
    THEN [err |-> "none",
          df |-> [i \in 1..(Len(df) - 1) |-> IF i <= index THEN df[i] ELSE df[i + 1]]]
    ELSE [err |-> "KeyError", df |-> df]

\* The outcome of a call: the file afterwards, the DataFrame returned, the error raised.
Raised(f, e) == [file |-> f, ret |-> <<>>, err |-> e]
Returned(df) == [file |-> to_csv(df), ret |-> df, err |-> "none"]

-----------------------------------------------------------------------------
(* The record store, src/utils.py *)

save_transaction(f, rec) ==
    LET l == load_transactions(f)
    IN  IF l.err # "none" THEN Raised(l.file, l.err)
        ELSE Returned(concat(l.df, rec))

edit_transaction(f, index, rec) ==
    LET l == load_transactions(f)
    IN  IF l.err # "none" THEN Raised(l.file, l.err)
        ELSE Returned(loc_set(l.df, index, rec))

delete_transaction(f, index) ==
    LET l == load_transactions(f)
        d == drop(l.df, index)
    IN  IF l.err # "none" THEN Raised(l.file, l.err)
        ELSE IF d.err # "none" THEN Raised(l.file, d.err)
        ELSE Returned(d.df)

save_goal(f, rec) ==
    LET l == load_goals(f)
    IN  IF l.err # "none" THEN Raised(l.file, l.err)
        ELSE Returned(concat(l.df, rec))

update_goal(f, index, rec) ==
    LET l == load_goals(f)
    IN  IF l.err # "none" THEN Raised(l.file, l.err)
        ELSE Returned(loc_set(l.df, index, rec))

delete_goal(f, index) ==
    LET l == load_goals(f)
        d == drop(l.df, index)
    IN  IF l.err # "none" THEN Raised(l.file, l.err)
        ELSE IF d.err # "none" THEN Raised(l.file, d.err)
        ELSE Returned(d.df)

save_investment(f, rec) ==
    LET l == load_portfolio(f)
    IN  IF l.err # "none" THEN Raised(l.file, l.err)
        ELSE Returned(concat(l.df, rec))

update_investment(f, index, rec) ==
    LET l == load_portfolio(f)
    IN  IF l.err # "none" THEN Raised(l.file, l.err)
        ELSE Returned(loc_set(l.df, index, rec))

delete_investment(f, index) ==
    LET l == load_portfolio(f)
        d == drop(l.df, index)
    IN  IF l.err # "none" THEN Raised(l.file, l.err)
        ELSE IF d.err # "none" THEN Raised(l.file, d.err)
        ELSE Returned(d.df)

\* df.loc[df['category'] == category, 'monthly_limit'] = monthly_limit:
\* every row of that category is set; no row is added when none matches.
save_budget(f, category, monthly_limit) ==
    LET l == load_budgets(f)
    IN  IF l.err # "none" THEN Raised(l.file, l.err)
        ELSE Returned([i \in 1..Len(l.df) |->
                         IF l.df[i].category = category
                         THEN [l.df[i] EXCEPT !.monthly_limit = monthly_limit]
                         ELSE l.df[i]])

-----------------------------------------------------------------------------
(* Text.  A Python str is a TLA+ string; its characters are looked up in    *)
(* Chars, so that split, strip, lower, the substring test and the ordering  *)
(* of strings are computed character by character.                          *)

\* The strings the model handles.
Vocabulary == {"", "a", "b", "c", "B", "a, b", "b,c", "rent", "500,1000"}

Chars(s) ==
    CASE s = "" -> <<>>
      [] s = "a" -> <<"a">>
      [] s = "b" -> <<"b">>
      [] s = "c" -> <<"c">>
      [] s = "a, b" -> <<"a", ",", " ", "b">>
      [] s = "b,c" -> <<"b", ",", "c">>
      [] s = "rent" -> <<"r", "e", "n", "t">>
      [] s = "B" -> <<"B">>
      [] s = "500,1000" -> <<"5", "0", "0", ",", "1", "0", "0", "0">>

\* The string made of the characters cs.
Str(cs) == CHOOSE s \in Vocabulary : Chars(s) = cs

\* ord(c), the code point of a character.
Ord(c) ==
    CASE c = " " -> 32 [] c = "," -> 44 [] c = "0" -> 48 [] c = "1" -> 49
      [] c = "5" -> 53 [] c = "A" -> 65 [] c = "B" -> 66 [] c = "C" -> 67
      [] c = "a" -> 97 [] c = "b" -> 98 [] c = "c" -> 99 [] c = "e" -> 101
      [] c = "n" -> 110 [] c = "r" -> 114 [] c = "t" -> 116

\* str.lower() on one character.
LowerChar(c) ==
    CASE c = "A" -> "a" [] c = "B" -> "b" [] c = "C" -> "c" [] OTHER -> c
Lower(cs) == [i \in 1..Len(cs) |-> LowerChar(cs[i])]

\* str.split(','): the pieces between the commas; one empty piece for ''.
RECURSIVE split(_)
split(cs) ==
    IF \E i \in 1..Len(cs) : cs[i] = ","
    THEN LET i == CHOOSE k \in 1..Len(cs) :
                    cs[k] = "," /\ \A j \in 1..(k - 1) : cs[j] # ","
         IN  <<SubSeq(cs, 1, i - 1)>> \o split(SubSeq(cs, i + 1, Len(cs)))
    ELSE <<cs>>

\* str.strip(): leading and trailing blanks removed.
RECURSIVE strip(_)
strip(cs) ==
    IF cs # <<>> /\ Head(cs) = " " THEN strip(Tail(cs))
    ELSE IF cs # <<>> /\ cs[Len(cs)] = " " THEN strip(SubSeq(cs, 1, Len(cs) - 1))
    ELSE cs

\* Python's < on str: by code point, a proper prefix first.
RECURSIVE CharsLess(_, _)
CharsLess(x, y) ==
    IF y = <<>> THEN FALSE
    ELSE IF x = <<>> THEN TRUE
    ELSE IF Ord(Head(x)) # Ord(Head(y)) THEN Ord(Head(x)) < Ord(Head(y))
    ELSE CharsLess(Tail(x), Tail(y))
StrLess(s, t) == CharsLess(Chars(s), Chars(t))

\* sorted(list(S)) for a set S of strings.
RECURSIVE sorted(_)
sorted(S) ==
    IF S = {} THEN <<>>
    ELSE LET m == CHOOSE x \in S : \A y \in S \ {x} : StrLess(x, y)
         IN  <<m>> \o sorted(S \ {m})

\* Series.dropna(): the values that are not NaN.
dropna(col) == SelectSeq(col, LAMBDA v : v # NaN)

\* get_all_tags(df): every tags value that is not NaN is split on commas,
\* each piece stripped, and the set of the pieces returned sorted.
get_all_tags(df) ==
    LET fields == dropna([i \in 1..Len(df) |-> df[i].tags])
        pieces(t) == LET ps == split(Chars(t))
                     IN  {Str(strip(ps[k])) : k \in 1..Len(ps)}
    IN  sorted(UNION {pieces(fields[i]) : i \in 1..Len(fields)})

-----------------------------------------------------------------------------
(* search_transactions, src/utils.py *)

\* None, for an argument that is a string; None and '' are both falsy.
None == "<None>"
truthy(s) == s # None /\ s # ""

\* None, and a value that is not None, for an argument that is a number.
NoneNum == [set |-> FALSE, v |-> 0]
Some(v) == [set |-> TRUE, v |-> v]

\* The .str accessor of a column exists when the column holds strings.  A
\* column read from a file in which every cell of it is empty is float64
\* (all NaN) and has no .str accessor.
has_str(col) == Len(col) = 0 \/ \E i \in 1..Len(col) : col[i] # NaN

\* Series.str.contains(pat, case=False, na=False) on one value.
contains(v, pat) ==
    /\ v # NaN
    /\ \E i \in 1..(Len(Chars(v)) - Len(Chars(pat)) + 1) :
         Lower(SubSeq(Chars(v), i, i + Len(Chars(pat)) - 1)) = Lower(Chars(pat))

\* The mask of search_transactions on one row: every filter that is applied
\* is and-ed into it.
keep(row, c) ==
    /\ truthy(c.search_term) =>
         (contains(row.description, c.search_term) \/ contains(row.tags, c.search_term))
    /\ c.start_date.set => row.date >= c.start_date.v
    /\ c.end_date.set => row.date <= c.end_date.v
    /\ truthy(c.transaction_type) => row.type = c.transaction_type
    /\ truthy(c.category) => row.category = c.category
    /\ c.min_amount.set => row.amount >= c.min_amount.v
    /\ c.max_amount.set => row.amount <= c.max_amount.v
    /\ truthy(c.tags) => contains(row.tags, c.tags)

\* The labels, counted from 0, of the rows of df the mask keeps, in order.
RECURSIVE kept(_, _, _)
kept(df, c, i) ==
    IF i > Len(df) THEN <<>>
    ELSE (IF keep(df[i], c) THEN <<i - 1>> ELSE <<>>) \o kept(df, c, i + 1)

\* search_transactions(df, ...): df[mask], the rows with their labels; an
\* AttributeError when .str is used on a column that has none.
search_transactions(df, c) ==
    LET description == [i \in 1..Len(df) |-> df[i].description]
        tags == [i \in 1..Len(df) |-> df[i].tags]
        index == kept(df, c, 1)
    IN  IF truthy(c.search_term) /\ ~(has_str(description) /\ has_str(tags))
        THEN [err |-> "AttributeError", index |-> <<>>, rows |-> <<>>]
        ELSE IF truthy(c.tags) /\ ~has_str(tags)
        THEN [err |-> "AttributeError", index |-> <<>>, rows |-> <<>>]
        ELSE [err |-> "none", index |-> index,
              rows |-> [k \in 1..Len(index) |-> df[index[k] + 1]]]

\* The criteria when none is supplied.
NoCriteria ==
    [search_term |-> None, start_date |-> NoneNum, end_date |-> NoneNum,
     transaction_type |-> None, category |-> None, min_amount |-> NoneNum,
     max_amount |-> NoneNum, tags |-> None]

\* Row r of a table satisfies every criterion that c supplies.
Satisfies(r, c) ==
    /\ c.search_term \notin {None, ""} =>
         \E f \in {"description", "tags"} :
            /\ r[f] # NaN
            /\ \E i \in 1..Len(Chars(r[f])) : \E j \in i..Len(Chars(r[f])) :
                 Lower(SubSeq(Chars(r[f]), i, j)) = Lower(Chars(c.search_term))
    /\ c.tags \notin {None, ""} =>
         /\ r.tags # NaN
         /\ \E i \in 1..Len(Chars(r.tags)) : \E j \in i..Len(Chars(r.tags)) :
              Lower(SubSeq(Chars(r.tags), i, j)) = Lower(Chars(c.tags))
    /\ c.start_date.set => c.start_date.v <= r.date
    /\ c.end_date.set => r.date <= c.end_date.v
    /\ c.transaction_type # None => r.type = c.transaction_type
    /\ c.category # None => r.category = c.category
    /\ c.min_amount.set => c.min_amount.v <= r.amount
    /\ c.max_amount.set => r.amount <= c.max_amount.v

-----------------------------------------------------------------------------
(* Budget status, src/utils.py *)

\* df['date'].dt.strftime('%Y-%m') of a date written YYYYMMDD, as the number YYYYMM.
strftime_Ym(date) == date \div 100

\* A percentage is kept exact, as the fraction num/den; den = 0 is the
\* floating-point infinity that a positive number divided by zero yields.
Inf == [num |-> 1, den |-> 0]
Frac(n, d) == [num |-> n, den |-> d]
PctGT(p, k) == IF p.den = 0 THEN TRUE ELSE p.num > k * p.den
PctEq(p, k) == p.den # 0 /\ p.num = k * p.den

RECURSIVE SumAmount(_)
SumAmount(rows) ==
    IF rows = <<>> THEN 0 ELSE Head(rows).amount + SumAmount(Tail(rows))

\* budget_status['amount'] / budget_status['monthly_limit'] * 100, then
\* .fillna(0).  Series division does not raise on a zero divisor: 0/0 is NaN,
\* which fillna turns into 0, and x/0 for x > 0 is inf, which fillna leaves.
percentage(amount, monthly_limit) ==
    IF monthly_limit # 0 THEN Frac(amount * 100, monthly_limit)
    ELSE IF amount = 0 THEN Frac(0, 1)
    ELSE Inf

\* Mutant of status_of: the warning tier starts at 80 percent, not above it.
status_of_from_80(pct) ==
    IF PctGT(pct, 100) THEN "Over Budget"
    ELSE IF PctGT(pct, 80) \/ PctEq(pct, 80) THEN "Warning"
    ELSE "Good"

\* The lambda of get_budget_status: the status tier of a percentage.
status_of(pct) ==
    IF PctGT(pct, 100) THEN "Over Budget"
    ELSE IF PctGT(pct, 80) THEN "Warning"
    ELSE "Good"

\* get_budget_status(df, budgets) with datetime.now() in month current_month:
\* the Expense rows of the month summed by category, left-merged onto budgets.
get_budget_status(df, budgets, current_month) ==
    LET month_data == SelectSeq(df, LAMBDA r : strftime_Ym(r.date) = current_month)
        expenses == SelectSeq(month_data, LAMBDA r : r.type = "Expense")
        spent(c) == SumAmount(SelectSeq(expenses, LAMBDA r : r.category = c))
        amount(c) == IF \E i \in 1..Len(expenses) : expenses[i].category = c
                     THEN spent(c) ELSE 0
    IN  [i \in 1..Len(budgets) |->
            LET b == budgets[i]
                pct == percentage(amount(b.category), b.monthly_limit)
            IN  [category |-> b.category, monthly_limit |-> b.monthly_limit,
                 amount |-> amount(b.category), percentage |-> pct,
                 status |-> status_of(pct)]]

\* Mutant of alert_of: only the over-budget branch.
alert_of_over_only(row) ==
    IF PctGT(row.percentage, 100)
    THEN <<[category |-> row.category, kind |-> "over budget",
            by |-> row.amount - row.monthly_limit, used |-> row.percentage]>>
    ELSE <<>>

\* The body of check_budget_alerts' loop: the messages appended for one row.
alert_of(row) ==
    IF PctGT(row.percentage, 100)
    THEN <<[category |-> row.category, kind |-> "over budget",
            by |-> row.amount - row.monthly_limit, used |-> row.percentage]>>
    ELSE IF PctGT(row.percentage, 80)
    THEN <<[category |-> row.category, kind |-> "approaching",
            by |-> 0, used |-> row.percentage]>>
    ELSE <<>>

RECURSIVE AlertsOf(_)
AlertsOf(rows) ==
    IF rows = <<>> THEN <<>> ELSE alert_of(Head(rows)) \o AlertsOf(Tail(rows))

\* check_budget_alerts(df, budgets): one pass over get_budget_status' rows.
check_budget_alerts(df, budgets, current_month) ==
    AlertsOf(get_budget_status(df, budgets, current_month))

-----------------------------------------------------------------------------
(* Summaries, src/utils.py *)

\* Mutant of get_monthly_summary: the rows are not restricted to the month.
get_monthly_summary_all_months(df, current_month) ==
    LET income == SumAmount(SelectSeq(df, LAMBDA r : r.type = "Income"))
        expenses == SumAmount(SelectSeq(df, LAMBDA r : r.type = "Expense"))
    IN  [income |-> income, expenses |-> expenses, balance |-> income - expenses]

\* get_monthly_summary(df), with datetime.now().strftime('%Y-%m') passed in.
get_monthly_summary(df, current_month) ==
    LET month_data == SelectSeq(df, LAMBDA r : strftime_Ym(r.date) = current_month)
        income == SumAmount(SelectSeq(month_data, LAMBDA r : r.type = "Income"))
        expenses == SumAmount(SelectSeq(month_data, LAMBDA r : r.type = "Expense"))
    IN  [income |-> income, expenses |-> expenses, balance |-> income - expenses]

\* create_empty_chart(message): the placeholder figure.
create_empty_chart(message) == [chart |-> "placeholder", message |-> message]

\* A figure drawn from data.
Figure == [chart |-> "figure", message |-> ""]

RECURSIVE SumCurrentValue(_)
SumCurrentValue(rows) ==
    IF rows = <<>> THEN 0 ELSE Head(rows).current_value + SumCurrentValue(Tail(rows))

\* Mutant of get_portfolio_summary: the division is not guarded.
get_portfolio_summary_unguarded(portfolio) ==
    IF portfolio = <<>>
    THEN [fig |-> create_empty_chart("No investments available"), total_investment |-> 0,
          total_current_value |-> 0, total_return |-> 0, return_percentage |-> Frac(0, 1)]
    ELSE LET total_investment == SumAmount(portfolio)
             total_current_value == SumCurrentValue(portfolio)
             total_return == total_current_value - total_investment
         IN  [fig |-> Figure, total_investment |-> total_investment,
              total_current_value |-> total_current_value, total_return |-> total_return,
              return_percentage |-> Frac(total_return * 100, total_investment)]

\* get_portfolio_summary(portfolio): the gauge and the four totals.
get_portfolio_summary(portfolio) ==
    IF portfolio = <<>>
    THEN [fig |-> create_empty_chart("No investments available"), total_investment |-> 0,
          total_current_value |-> 0, total_return |-> 0, return_percentage |-> Frac(0, 1)]
    ELSE LET total_investment == SumAmount(portfolio)
             total_current_value == SumCurrentValue(portfolio)
             total_return == total_current_value - total_investment
         IN  [fig |-> Figure, total_investment |-> total_investment,
              total_current_value |-> total_current_value, total_return |-> total_return,
              return_percentage |-> IF total_investment > 0
                                    THEN Frac(total_return * 100, total_investment)
                                    ELSE Frac(0, 1)]

-----------------------------------------------------------------------------
(* Chart builders, src/utils.py.  A builder returns the placeholder figure, *)
(* a figure drawn from the data, or raises.                                 *)

\* The builder raised exception e.
ChartError(e) == [chart |-> "error", message |-> e]

get_category_distribution(df) ==
    LET expense_data == SelectSeq(df, LAMBDA r : r.type = "Expense")
    IN  IF expense_data = <<>> THEN create_empty_chart("No expense data available")
        ELSE Figure

\* The groups of get_monthly_trends: the (month, type) pairs that occur.
monthly_totals(df) == {<<strftime_Ym(df[i].date), df[i].type>> : i \in 1..Len(df)}

get_monthly_trends(df) ==
    IF monthly_totals(df) = {} THEN create_empty_chart("No transaction data available")
    ELSE Figure

\* get_budget_vs_actual_chart draws the two bar traces of get_budget_status
\* whatever the tables hold; it has no branch for an empty input.
get_budget_vs_actual_chart(df, budgets, current_month) ==
    [chart |-> "figure", message |-> "",
     bars |-> [i \in 1..Len(get_budget_status(df, budgets, current_month)) |->
                 get_budget_status(df, budgets, current_month)[i].amount]]

get_goal_progress_chart(goals) ==
    IF goals = <<>> THEN create_empty_chart("No goals available") ELSE Figure

\* get_milestone_chart(goal).  "not goal['milestones']" is true of '' only:
\* NaN is a float that is not zero, so it is truthy, it is not equal to "",
\* and goal['milestones'].strip is then looked up on a float.
get_milestone_chart(goal) ==
    IF goal.milestones = "" THEN create_empty_chart("No milestones defined")
    ELSE IF goal.milestones = NaN THEN ChartError("AttributeError")
    ELSE Figure

get_portfolio_distribution(portfolio) ==
    IF portfolio = <<>> THEN create_empty_chart("No investments available") ELSE Figure

-----------------------------------------------------------------------------
(* Inputs *)

Dates == {20240315}
Types == {"Expense", "Income"}
Amounts == {50}
Descriptions == {"rent"}
TagInputs == {"", "a, b"}

TxRecords ==
    [date : Dates, type : {"Expense"}, category : {categories[1]}, amount : Amounts,
     description : Descriptions, tags : TagInputs]

GoalRecords ==
    [goal_type : {"Savings"}, name : {"car"}, target_amount : {1000},
     current_amount : {0}, deadline : {20250101}, status : {"In Progress"},
     milestones : {"", "500,1000"}]

InvestmentRecords ==
    [investment_type : {"Stocks"}, name : {"acme"}, amount : {1000},
     purchase_date : {20240101}, current_value : {1000, 1200}]

Limits == {0, 50, 500, 1000}

Indexes == 0..MaxRows

\* The table on disk as a reader sees it (a missing file reads as the empty table).
Table(f) == load(f).df

TotalRows(fs) ==
    Len(fs["transactions"].rows) + Len(fs["goals"].rows) + Len(fs["portfolio"].rows)

NoCall == [op |-> "none", kind |-> "none", index |-> 0, rec |-> <<>>,
           err |-> "none", ret |-> <<>>, before |-> <<>>, existed |-> FALSE,
           file |-> Missing, cache |-> Unset]

Callers == {1, 2}

\* No function has been applied yet; and the value val returned by function fn.
NoResult == [set |-> FALSE, fn |-> "none", val |-> <<>>]
Result(fn, val) == [set |-> TRUE, fn |-> fn, val |-> val]

\* The locals of a caller that is not inside a call.
NoLocals == [op |-> "none", rec |-> <<>>, index |-> 0, loaded |-> <<>>,
             df |-> <<>>, err |-> "none"]

InitRest ==
    /\ session = [k \in Kinds |-> Unset]
    /\ pc = [p \in Callers |-> "idle"]
    /\ local = [p \in Callers |-> NoLocals]
    /\ committed = Missing
    /\ now = 202403
    /\ tx_in = <<>>
    /\ budgets_in = <<>>
    /\ budget_status = Unset
    /\ arg_in = <<>>
    /\ result = NoResult

-----------------------------------------------------------------------------
(* Spec: direct calls of the record-store functions on the three indexable  *)
(* tables, one call at a time.                                              *)

Init ==
    /\ files = [k \in Kinds |-> Missing]
    /\ last = NoCall
    /\ InitRest

\* One call of a store function on the file of `kind`, recorded in `last`.
Call(op, kind, index, rec, out) ==
    /\ TotalRows([files EXCEPT ![kind] = out.file]) <= MaxRows
    /\ files' = [files EXCEPT ![kind] = out.file]
    /\ last' = [op |-> op, kind |-> kind, index |-> index, rec |-> rec,
                err |-> out.err, ret |-> out.ret,
                before |-> Table(files[kind]), existed |-> files[kind].exists,
                file |-> files[kind], cache |-> session[kind]]
    /\ UNCHANGED <<session, pc, local, committed, now, tx_in, budgets_in, budget_status, arg_in, result>>

call_save_transaction ==
    \E rec \in TxRecords :
        Call("append", "transactions", 0, rec, save_transaction(files["transactions"], rec))

call_edit_transaction ==
    \E index \in Indexes, rec \in TxRecords :
        Call("update", "transactions", index, rec,
             edit_transaction(files["transactions"], index, rec))

call_delete_transaction ==
    \E index \in Indexes :
        Call("delete", "transactions", index, <<>>,
             delete_transaction(files["transactions"], index))

call_save_goal ==
    \E rec \in GoalRecords :
        Call("append", "goals", 0, rec, save_goal(files["goals"], rec))

call_update_goal ==
    \E index \in Indexes, rec \in GoalRecords :
        Call("update", "goals", index, rec, update_goal(files["goals"], index, rec))

call_delete_goal ==
    \E index \in Indexes :
        Call("delete", "goals", index, <<>>, delete_goal(files["goals"], index))

call_save_investment ==
    \E rec \in InvestmentRecords :
        Call("append", "portfolio", 0, rec, save_investment(files["portfolio"], rec))

call_update_investment ==
    \E index \in Indexes, rec \in InvestmentRecords :
        Call("update", "portfolio", index, rec,
             update_investment(files["portfolio"], index, rec))

call_delete_investment ==
    \E index \in Indexes :
        Call("delete", "portfolio", index, <<>>,
             delete_investment(files["portfolio"], index))

Next ==
    \/ call_save_transaction
    \/ call_edit_transaction
    \/ call_delete_transaction
    \/ call_save_goal
    \/ call_update_goal
    \/ call_delete_goal
    \/ call_save_investment
    \/ call_update_investment
    \/ call_delete_investment

Spec == Init /\ [][Next]_vars

-----------------------------------------------------------------------------
(* Claims about the record store, checked under Spec *)

\* The table now on disk for the kind the last call was about.
After == Table(files[last.kind])

\* C1: an update-by-index call with index >= the row count fails with an
\* out-of-range error and leaves the persisted table unchanged (no row added
\* or modified), for transactions, goals and investments, on a table of any
\* length including the empty one.
C1_UpdateOutOfRangeFails ==
    (last.op = "update" /\ last.index >= Len(last.before))
        => (last.err # "none" /\ After = last.before)

\* C2: deleting a valid index i of a table of length n and loading again
\* gives a table of length n-1 in which rows formerly at j < i keep index j
\* and rows formerly at j > i are at index j-1 (the row at i is gone, the
\* order of the others is kept).
C2_DeleteRemovesExactlyRow ==
    (last.op = "delete" /\ last.index < Len(last.before))
        => /\ last.err = "none"
           /\ Len(After) = Len(last.before) - 1
           /\ \A j \in 0..(Len(last.before) - 1) :
                /\ j < last.index => After[j + 1] = last.before[j + 1]
                /\ j > last.index => After[j] = last.before[j + 1]

\* C2 witness: a delete of a row that has both a row before it and a row after it.
C2_Witness ==
    /\ last.op = "delete"
    /\ last.err = "none"
    /\ Len(last.before) = 3
    /\ last.index = 1
    /\ last.before[1] # last.before[3]

\* C3: updating a valid index i with record r and loading again gives a
\* table of the same length where row i equals r in every field and every
\* other row is unchanged and at its original position.
C3_UpdateSetsExactlyRow ==
    (last.op = "update" /\ last.index < Len(last.before))
        => /\ last.err = "none"
           /\ Len(After) = Len(last.before)
           /\ \A j \in 0..(Len(last.before) - 1) :
                After[j + 1] = IF j = last.index THEN last.rec ELSE last.before[j + 1]

\* C4: a delete-by-index call with index >= the row count fails with an
\* out-of-range error and leaves the persisted table exactly as it was (same
\* rows, same order), for transactions, goals and investments.
C4_DeleteOutOfRangeFails ==
    (last.op = "delete" /\ last.index >= Len(last.before))
        => (last.err = "KeyError" /\ After = last.before)

\* C4 witness: a delete with an index past the end failed on a table that holds rows.
C4_Witness ==
    /\ last.op = "delete"
    /\ last.index >= Len(last.before)
    /\ last.err = "KeyError"
    /\ Len(last.before) = 2

\* C5: append(record) on a persisted table of length n gives a persisted
\* table of length n+1 whose last row equals the record and whose first n
\* rows are the previous rows in order, and the returned table equals the
\* persisted one; also when the file did not exist before (n = 0).
C5_AppendAddsLastRow ==
    last.op = "append"
        => /\ last.err = "none"
           /\ Len(After) = Len(last.before) + 1
           /\ After[Len(After)] = last.rec
           /\ SubSeq(After, 1, Len(last.before)) = last.before
           /\ last.ret = After

-----------------------------------------------------------------------------
(* SpecBudgets: load_budgets and save_budget on data/budgets.csv, which is  *)
(* either absent (a fresh checkout) or holds one row per category.          *)

\* The budgets file with one row per category of main.py's list, each limit 0.
SeededBudgets ==
    to_csv([i \in 1..Len(categories) |-> [category |-> categories[i], monthly_limit |-> 0]])

InitBudgets ==
    /\ files \in {[k \in Kinds |-> IF k = "budgets" THEN b ELSE Missing] :
                    b \in {Missing, SeededBudgets}}
    /\ last = NoCall
    /\ InitRest

CallBudgets(op, rec, out) ==
    /\ files' = [files EXCEPT !["budgets"] = out.file]
    /\ last' = [op |-> op, kind |-> "budgets", index |-> 0, rec |-> rec,
                err |-> out.err, ret |-> out.ret,
                before |-> Table(files["budgets"]), existed |-> files["budgets"].exists,
                file |-> files["budgets"], cache |-> session["budgets"]]
    /\ UNCHANGED <<session, pc, local, committed, now, tx_in, budgets_in, budget_status, arg_in, result>>

call_load_budgets ==
    LET l == load_budgets(files["budgets"])
    IN  CallBudgets("load_budgets", <<>>, [file |-> l.file, ret |-> l.df, err |-> l.err])

call_save_budget ==
    \E category \in CategorySet, monthly_limit \in Limits :
        CallBudgets("save_budget",
                    [category |-> category, monthly_limit |-> monthly_limit],
                    save_budget(files["budgets"], category, monthly_limit))

NextBudgets ==
    \/ call_load_budgets
    \/ call_save_budget

SpecBudgets == InitBudgets /\ [][NextBudgets]_vars

\* The budget table holds exactly one row for each known category.
OneRowPerCategory(t) ==
    /\ Len(t) = Len(categories)
    /\ \A c \in CategorySet : Cardinality({i \in 1..Len(t) : t[i].category = c}) = 1

\* save_budget changed nothing but the monthly_limit of the rows of the given category.
OnlyLimitOfCategoryChanged ==
    /\ Len(After) = Len(last.before)
    /\ \A i \in 1..Len(After) :
         /\ After[i].category = last.before[i].category
         /\ After[i].category # last.rec.category => After[i] = last.before[i]
         /\ After[i].category = last.rec.category
                => After[i].monthly_limit = last.rec.monthly_limit

\* C6: from any initial state, a missing budgets file included, and after any
\* sequence of load_budgets and save_budget calls, the budget table holds
\* exactly one row for each known category, and save_budget changes only the
\* monthly_limit of the row whose category is the given key.
C6_OneRowPerCategory ==
    /\ last.op # "none" => OneRowPerCategory(Table(files["budgets"]))
    /\ last.op = "save_budget" => OnlyLimitOfCategoryChanged

-----------------------------------------------------------------------------
(* SpecStatus: get_budget_status applied to a transactions table and a      *)
(* budgets table drawn from bounded sets.                                   *)

StatusAmounts == {50, 800, 1000, 1200}
StatusLimits == {0, 1000}

StatusTxRows ==
    [date : {20240315, 20240410}, type : Types, category : {categories[1]},
     amount : StatusAmounts, description : {"rent"}, tags : {NaN}]

SeqsUpTo(S, n) == UNION {[1..k -> S] : k \in 0..n}

StatusBudgets ==
    {[i \in 1..Len(categories) |-> [category |-> categories[i], monthly_limit |-> lim[i]]] :
        lim \in [1..Len(categories) -> StatusLimits]}

InitStatus ==
    /\ files = [k \in Kinds |-> Missing]
    /\ last = NoCall
    /\ session = [k \in Kinds |-> Unset]
    /\ pc = [p \in Callers |-> "idle"]
    /\ local = [p \in Callers |-> NoLocals]
    /\ committed = Missing
    /\ now = 202403
    /\ tx_in \in SeqsUpTo(StatusTxRows, MaxStatusRows)
    /\ budgets_in \in StatusBudgets
    /\ budget_status = Unset
    /\ arg_in = <<>>
    /\ result = NoResult

call_get_budget_status ==
    /\ budget_status = Unset
    /\ budget_status' = Held(get_budget_status(tx_in, budgets_in, now))
    /\ UNCHANGED <<files, last, session, pc, local, committed, now, tx_in, budgets_in, arg_in, result>>

call_check_budget_alerts ==
    /\ ~result.set
    /\ result' = Result("check_budget_alerts", check_budget_alerts(tx_in, budgets_in, now))
    /\ UNCHANGED <<files, last, session, pc, local, committed, now, tx_in, budgets_in,
                   budget_status, arg_in>>

NextStatus ==
    \/ call_get_budget_status
    \/ call_check_budget_alerts

SpecStatus == InitStatus /\ [][NextStatus]_vars

\* C7: for a budget category whose monthly limit is 0 and whose spend in the
\* reference month is positive, budgetStatus raises no division error and
\* yields percentage = 0, hence status "Good" (and no alert).
C7_ZeroLimitPercentageZero ==
    budget_status.set =>
        \A i \in 1..Len(budget_status.df) :
            LET row == budget_status.df[i]
            IN  (row.monthly_limit = 0 /\ row.amount > 0)
                    => (PctEq(row.percentage, 0) /\ row.status = "Good")

\* The sum of the amounts of the Expense rows of df in category c dated in
\* month m, taken row by row over the first k rows.
RECURSIVE SpendUpTo(_, _, _, _)
SpendUpTo(df, c, m, k) ==
    IF k = 0 THEN 0
    ELSE SpendUpTo(df, c, m, k - 1)
         + (IF df[k].type = "Expense" /\ df[k].category = c /\ df[k].date \div 100 = m
            THEN df[k].amount ELSE 0)

\* C11: budgetStatus returns exactly one row per budget category, in the
\* budgets' order; actualSpend is the sum of the Expense amounts of that
\* category dated in the reference month (0 if none; Income rows and other
\* months do not count); for limit > 0 percentage = actualSpend/limit*100;
\* status is "Over Budget" above 100, else "Warning" above 80, else "Good"
\* (exactly 100 is "Warning", exactly 80 is "Good").
C11_BudgetStatusRows ==
    budget_status.set =>
        /\ Len(budget_status.df) = Len(budgets_in)
        /\ \A i \in 1..Len(budgets_in) :
             LET row == budget_status.df[i]
                 limit == budgets_in[i].monthly_limit
                 spend == SpendUpTo(tx_in, budgets_in[i].category, now, Len(tx_in))
             IN  /\ row.category = budgets_in[i].category
                 /\ row.monthly_limit = limit
                 /\ row.amount = spend
                 /\ limit > 0 =>
                      /\ row.percentage.den # 0
                      /\ row.percentage.num * limit = spend * 100 * row.percentage.den
                      /\ row.status = IF spend * 100 > 100 * limit THEN "Over Budget"
                                      ELSE IF spend * 100 > 80 * limit THEN "Warning"
                                      ELSE "Good"

\* The status row of the first category has this limit, spend and status.
FirstRowIs(limit, spend, status) ==
    /\ budget_status.set
    /\ budget_status.df[1].monthly_limit = limit
    /\ budget_status.df[1].amount = spend
    /\ budget_status.df[1].status = status

\* C11 witness: limit 1000 with two expenses of the month summing to 850 gives
\* 85 percent and "Warning", and the category without spend gets 0.
C11_Witness ==
    /\ FirstRowIs(1000, 850, "Warning")
    /\ PctEq(budget_status.df[1].percentage, 85)
    /\ Len(tx_in) = 2
    /\ budget_status.df[2].amount = 0

\* C12: budgetAlerts emits exactly one message for each budget category whose
\* percentage is above 80 and none for the others: "over budget by
\* actual - limit" above 100, otherwise "approaching limit, percentage used";
\* a category has an alert if and only if its status is not "Good".
C12_AlertsMatchStatus ==
    (result.set /\ result.fn = "check_budget_alerts") =>
        LET status == get_budget_status(tx_in, budgets_in, now)
            alerts == result.val
        IN  \A i \in 1..Len(status) :
              LET row == status[i]
                  mine == {j \in 1..Len(alerts) : alerts[j].category = row.category}
              IN  /\ Cardinality(mine) = IF PctGT(row.percentage, 80) THEN 1 ELSE 0
                  /\ (mine # {}) <=> (row.status # "Good")
                  /\ \A j \in mine :
                       IF PctGT(row.percentage, 100)
                       THEN /\ alerts[j].kind = "over budget"
                            /\ alerts[j].by = row.amount - row.monthly_limit
                       ELSE /\ alerts[j].kind = "approaching"
                            /\ alerts[j].used = row.percentage

\* C12 witness: one category is approaching its limit and gets its message
\* while the other category, within its limit, gets none.
C12_Witness ==
    /\ result.set /\ result.fn = "check_budget_alerts"
    /\ Len(result.val) = 1
    /\ result.val[1].kind = "approaching"
    /\ PctEq(result.val[1].used, 85)

-----------------------------------------------------------------------------
(* SpecRace: two callers (two Streamlit sessions, or two processes) run     *)
(* save_transaction and delete_transaction on data/transactions.csv.  A     *)
(* call is a sequence of steps: load_transactions and the in-memory change, *)
(* then to_csv opening the file for writing, which truncates it, then       *)
(* to_csv writing the lines.  Nothing in the code orders the steps of one   *)
(* caller against those of the other, and a write can fail once the file is *)
(* open (disk full, the process killed).                                    *)

\* open(path, 'w'): the file exists and is empty.
truncated == [exists |-> TRUE, header |-> FALSE, rows |-> <<>>]

\* Mutant of written: the file is opened in append mode, the lines of df
\* follow what the file holds.
written_append(f, df) ==
    [exists |-> TRUE, header |-> TRUE, rows |-> f.rows \o to_csv(df).rows]

\* The lines of df written from the start of a file that holds f: they
\* replace the lines at their positions, lines of f beyond them remain.
written(f, df) ==
    [exists |-> TRUE, header |-> TRUE,
     rows |-> to_csv(df).rows \o SubSeq(f.rows, Len(df) + 1, Len(f.rows))]

RaceRecords == TxRecords
RaceIndexes == 0..MaxRaceRows

begin_save_transaction(p) ==
    /\ pc[p] = "idle"
    /\ \E rec \in RaceRecords :
         local' = [local EXCEPT ![p] = [NoLocals EXCEPT !.op = "append", !.rec = rec]]
    /\ pc' = [pc EXCEPT ![p] = "loading"]
    /\ UNCHANGED <<files, last, session, committed, now, tx_in, budgets_in, budget_status, arg_in, result>>

begin_delete_transaction(p) ==
    /\ pc[p] = "idle"
    /\ \E index \in RaceIndexes :
         local' = [local EXCEPT ![p] = [NoLocals EXCEPT !.op = "delete", !.index = index]]
    /\ pc' = [pc EXCEPT ![p] = "loading"]
    /\ UNCHANGED <<files, last, session, committed, now, tx_in, budgets_in, budget_status, arg_in, result>>

\* df = load_transactions(), then the concat or the drop on df.
read_modify(p) ==
    /\ pc[p] = "loading"
    /\ LET f == files["transactions"]
           l == load_transactions(f)
           d == IF local[p].op = "append"
                THEN [err |-> "none", df |-> concat(l.df, local[p].rec)]
                ELSE drop(l.df, local[p].index)
           e == IF l.err # "none" THEN l.err ELSE d.err
       IN  /\ Len(d.df) <= MaxRaceRows
           /\ files' = [files EXCEPT !["transactions"] = l.file]
           /\ committed' = IF f.exists THEN committed ELSE l.file
           /\ local' = [local EXCEPT ![p].loaded = l.df, ![p].df = d.df, ![p].err = e]
           /\ pc' = [pc EXCEPT ![p] = IF e = "none" THEN "persist" ELSE "failed"]
    /\ UNCHANGED <<last, session, now, tx_in, budgets_in, budget_status, arg_in, result>>

\* df.to_csv(path, index=False), first half: the file is opened for writing.
to_csv_open(p) ==
    /\ pc[p] = "persist"
    /\ files' = [files EXCEPT !["transactions"] = truncated]
    /\ pc' = [pc EXCEPT ![p] = "writing"]
    /\ UNCHANGED <<last, session, local, committed, now, tx_in, budgets_in, budget_status, arg_in, result>>

\* df.to_csv(path, index=False), second half: the lines are written, the call returns df.
to_csv_write(p) ==
    /\ pc[p] = "writing"
    /\ files' = [files EXCEPT !["transactions"] = written(files["transactions"], local[p].df)]
    /\ committed' = files'["transactions"]
    /\ pc' = [pc EXCEPT ![p] = "done"]
    /\ UNCHANGED <<last, session, local, now, tx_in, budgets_in, budget_status, arg_in, result>>

\* The write fails after the file was opened: the call ends with that error.
to_csv_fail(p) ==
    /\ pc[p] = "writing"
    /\ local' = [local EXCEPT ![p].err = "StorageError"]
    /\ pc' = [pc EXCEPT ![p] = "failed"]
    /\ UNCHANGED <<files, last, session, committed, now, tx_in, budgets_in, budget_status, arg_in, result>>

\* The caller takes the result, or the error, and is free to call again.
finish(p) ==
    /\ pc[p] \in {"done", "failed"}
    /\ pc' = [pc EXCEPT ![p] = "idle"]
    /\ local' = [local EXCEPT ![p] = NoLocals]
    /\ UNCHANGED <<files, last, session, committed, now, tx_in, budgets_in, budget_status, arg_in, result>>

InitRace ==
    /\ files = [k \in Kinds |-> Missing]
    /\ last = NoCall
    /\ InitRest

NextRace ==
    \E p \in Callers :
        \/ begin_save_transaction(p)
        \/ begin_delete_transaction(p)
        \/ read_modify(p)
        \/ to_csv_open(p)
        \/ to_csv_write(p)
        \/ to_csv_fail(p)
        \/ finish(p)

SpecRace == InitRace /\ [][NextRace]_vars

\* C8: every mutation is all-or-nothing with respect to the persisted table:
\* when the persist step has failed part-way (and no call is in the middle of
\* writing), the file on disk is still the last complete snapshot, never an
\* empty, truncated or partially written table.
C8_PersistAllOrNothing ==
    ( /\ \E p \in Callers : pc[p] = "failed" /\ local[p].err = "StorageError"
      /\ \A p \in Callers : pc[p] # "writing" )
        => files["transactions"] = committed

\* Both callers have completed an append, and each had loaded the same table.
BothAppendedSameSnapshot ==
    /\ \A p \in Callers : pc[p] = "done" /\ local[p].op = "append" /\ local[p].err = "none"
    /\ local[1].loaded = local[2].loaded

\* C9: when two callers' read-modify-write calls interleave so that both load
\* the same table, both complete without an error, and the final persisted
\* table holds the loaded rows plus only one of the two appended records: the
\* other update is lost and neither caller is told.
C9_LostUpdate ==
    BothAppendedSameSnapshot
        => LET t == Table(files["transactions"])
               n == Len(local[1].loaded)
           IN  /\ Len(t) = n + 1
               /\ SubSeq(t, 1, n) = local[1].loaded
               /\ \E p \in Callers : t[n + 1] = read_csv_row(to_csv_row(local[p].rec))

\* C9 witness: two different records were appended to the same loaded table
\* and one of them is not in the persisted table.
C9_Witness ==
    /\ BothAppendedSameSnapshot
    /\ local[1].rec # local[2].rec
    /\ \E p \in Callers :
         \A i \in 1..Len(files["transactions"].rows) :
            files["transactions"].rows[i] # to_csv_row(local[p].rec)

-----------------------------------------------------------------------------
(* SpecUI: one Streamlit session of src/main.py.  The script first fills    *)
(* st.session_state from the files, then each button press runs its handler. *)
(* data/budgets.csv holds its row per category, without which the script    *)
(* stops in the budgets tab before reaching the other handlers.             *)

\* Mutant of valid_transaction: the description is not checked.
valid_transaction_any_description(amount, description) == amount > 0

\* main.py, "Add Transaction": if amount > 0 and description
valid_transaction(amount, description) == amount > 0 /\ description # ""

\* main.py, "Add Goal": if goal_name and target_amount > 0
valid_goal(goal_name, target_amount) == goal_name # "" /\ target_amount > 0

\* main.py, "Add Investment": if investment_name and amount > 0
valid_investment(investment_name, amount) == investment_name # "" /\ amount > 0

\* What the widgets can hand to the handlers, an empty text and a zero amount included.
TxInputs ==
    [date : Dates, type : {"Expense"}, category : {categories[1]}, amount : {0, 50},
     description : {"", "rent"}, tags : TagInputs]

GoalInputs ==
    [goal_type : {"Savings"}, name : {"", "car"}, target_amount : {0, 1000},
     current_amount : {0}, deadline : {20250101}, status : {"In Progress"},
     milestones : {"", "500,1000"}]

InvestmentInputs ==
    [investment_type : {"Stocks"}, name : {"", "acme"}, amount : {0, 1000},
     purchase_date : {20240101}, current_value : {1000, 1200}]

InitUI ==
    /\ files = [k \in Kinds |-> IF k = "budgets" THEN SeededBudgets ELSE Missing]
    /\ last = NoCall
    /\ InitRest

\* main.py lines 43-50: each table not yet in st.session_state is loaded.
init_session_state ==
    /\ \E k \in Kinds : ~session[k].set
    /\ files' = [k \in Kinds |-> IF session[k].set THEN files[k] ELSE load(files[k]).file]
    /\ session' = [k \in Kinds |-> IF session[k].set THEN session[k]
                                   ELSE Held(load(files[k]).df)]
    /\ last' = [NoCall EXCEPT !.op = "init"]
    /\ UNCHANGED <<pc, local, committed, now, tx_in, budgets_in, budget_status, arg_in, result>>

\* A button handler of the form
\*     if <valid>: st.session_state.<kind> = save_<kind>(...)  else: st.error(...)
AddButton(op, kind, rec, valid, out) ==
    /\ \A k \in Kinds : session[k].set
    /\ valid => TotalRows([files EXCEPT ![kind] = out.file]) <= MaxUIRows
    /\ files' = IF valid THEN [files EXCEPT ![kind] = out.file] ELSE files
    /\ session' = IF valid /\ out.err = "none"
                  THEN [session EXCEPT ![kind] = Held(out.ret)] ELSE session
    /\ last' = [op |-> op, kind |-> kind, index |-> 0, rec |-> rec,
                err |-> IF valid THEN out.err ELSE "validation",
                ret |-> IF valid THEN out.ret ELSE <<>>,
                before |-> Table(files[kind]), existed |-> files[kind].exists,
                file |-> files[kind], cache |-> session[kind]]
    /\ UNCHANGED <<pc, local, committed, now, tx_in, budgets_in, budget_status, arg_in, result>>

add_transaction_button ==
    \E rec \in TxInputs :
        AddButton("add_transaction", "transactions", rec,
                  valid_transaction(rec.amount, rec.description),
                  save_transaction(files["transactions"], rec))

add_goal_button ==
    \E rec \in GoalInputs :
        AddButton("add_goal", "goals", rec,
                  valid_goal(rec.name, rec.target_amount),
                  save_goal(files["goals"], rec))

add_investment_button ==
    \E rec \in InvestmentInputs :
        AddButton("add_investment", "portfolio", rec,
                  valid_investment(rec.name, rec.amount),
                  save_investment(files["portfolio"], rec))

\* The filters of the Transaction Management section: the two date inputs
\* are always passed (first day of the month, today); the search term and
\* the tag are passed when chosen.
UICriteria ==
    LET dates == [NoCriteria EXCEPT !.start_date = Some(20240301),
                                    !.end_date = Some(20240331)]
    IN  {dates, [dates EXCEPT !.search_term = "B"], [dates EXCEPT !.tags = "b"]}

\* The limits the budget inputs are set to.
UILimits == {0, 500}

\* Mutant of selected_label: the position in the filtered view is passed on.
selected_label_position(filtered_transactions, k) == k

\* filtered_transactions.index[k]: the label of the k-th row of the view.
selected_label(filtered_transactions, k) == filtered_transactions.index[k + 1]

\* A handler of the form  st.session_state.<kind> = <store function>(...).
\* criteria and edit_index record the filtered view the index was read from.
Mutate(op, kind, index, rec, out, criteria, edit_index) ==
    /\ \A k \in Kinds : session[k].set
    /\ TotalRows([files EXCEPT ![kind] = out.file]) <= MaxUIRows
    /\ files' = [files EXCEPT ![kind] = out.file]
    /\ session' = IF out.err = "none" THEN [session EXCEPT ![kind] = Held(out.ret)]
                  ELSE session
    /\ last' = [op |-> op, kind |-> kind, index |-> index, rec |-> rec,
                err |-> out.err, ret |-> out.ret,
                before |-> Table(files[kind]), existed |-> files[kind].exists,
                file |-> files[kind], cache |-> session[kind],
                criteria |-> criteria, edit_index |-> edit_index]
    /\ UNCHANGED <<pc, local, committed, now, tx_in, budgets_in, budget_status, arg_in, result>>

\* main.py, "Update Transaction".  The form is there only when the filter
\* returned a view with rows; a filter that raises stops the script.
update_transaction_button ==
    \E c \in UICriteria, rec \in TxRecords :
        LET filtered_transactions == search_transactions(session["transactions"].df, c)
        IN  /\ filtered_transactions.err = "none"
            /\ filtered_transactions.index # <<>>
            /\ \E edit_index \in 0..(Len(filtered_transactions.index) - 1) :
                 LET index == selected_label(filtered_transactions, edit_index)
                 IN  Mutate("update_transaction", "transactions", index, rec,
                            edit_transaction(files["transactions"], index, rec),
                            c, edit_index)

\* main.py, "Delete Transaction": if not filtered_transactions.empty
delete_transaction_button ==
    \E c \in UICriteria :
        LET filtered_transactions == search_transactions(session["transactions"].df, c)
        IN  /\ filtered_transactions.err = "none"
            /\ filtered_transactions.index # <<>>
            /\ \E delete_index \in 0..(Len(filtered_transactions.index) - 1) :
                 LET index == selected_label(filtered_transactions, delete_index)
                 IN  Mutate("delete_transaction", "transactions", index, <<>>,
                            delete_transaction(files["transactions"], index),
                            c, delete_index)

\* main.py, "Update Goal": shown when st.session_state.goals is not empty.
update_goal_button ==
    \E edit_goal_index \in 0..(Len(session["goals"].df) - 1), rec \in GoalRecords :
        Mutate("update_goal", "goals", edit_goal_index, rec,
               update_goal(files["goals"], edit_goal_index, rec), NoCriteria, edit_goal_index)

\* main.py, "Delete Goal".
delete_goal_button ==
    \E delete_goal_index \in 0..(Len(session["goals"].df) - 1) :
        Mutate("delete_goal", "goals", delete_goal_index, <<>>,
               delete_goal(files["goals"], delete_goal_index), NoCriteria, delete_goal_index)

\* main.py, "Update Investment": shown when st.session_state.portfolio is not empty.
update_investment_button ==
    \E edit_investment_index \in 0..(Len(session["portfolio"].df) - 1),
       rec \in InvestmentRecords :
        Mutate("update_investment", "portfolio", edit_investment_index, rec,
               update_investment(files["portfolio"], edit_investment_index, rec),
               NoCriteria, edit_investment_index)

\* main.py, "Delete Investment".
delete_investment_button ==
    \E delete_investment_index \in 0..(Len(session["portfolio"].df) - 1) :
        Mutate("delete_investment", "portfolio", delete_investment_index, <<>>,
               delete_investment(files["portfolio"], delete_investment_index),
               NoCriteria, delete_investment_index)

\* main.py, the budget tab: for the category whose input differs from the
\* cached limit, st.session_state.budgets = save_budget(category, new_limit).
\* The input of the first category is the one that is changed.
budget_limit_input ==
    \E category \in {categories[1]}, new_limit \in UILimits :
        LET rows == SelectSeq(session["budgets"].df, LAMBDA b : b.category = category)
        IN  /\ rows # <<>>
            /\ new_limit # rows[1].monthly_limit
            /\ Mutate("save_budget", "budgets", 0,
                      [category |-> category, monthly_limit |-> new_limit],
                      save_budget(files["budgets"], category, new_limit), NoCriteria, 0)

NextUI ==
    \/ init_session_state
    \/ add_transaction_button
    \/ add_goal_button
    \/ add_investment_button
    \/ update_transaction_button
    \/ delete_transaction_button
    \/ update_goal_button
    \/ delete_goal_button
    \/ update_investment_button
    \/ delete_investment_button
    \/ budget_limit_input

SpecUI == InitUI /\ [][NextUI]_vars

\* The record handed to the last add has an empty required text field
\* (description, goal name, investment name) or a non-positive amount.
LastAddInvalid ==
    \/ last.op = "add_transaction" /\ (last.rec.description = "" \/ last.rec.amount <= 0)
    \/ last.op = "add_goal" /\ (last.rec.name = "" \/ last.rec.target_amount <= 0)
    \/ last.op = "add_investment" /\ (last.rec.name = "" \/ last.rec.amount <= 0)

\* C10: an add submitted with an empty required text field or a non-positive
\* amount is aborted with a user-visible error and writes nothing: the file
\* and the cached table are both as they were before the action.
C10_InvalidAddWritesNothing ==
    LastAddInvalid
        => /\ last.err = "validation"
           /\ files[last.kind] = last.file
           /\ session[last.kind] = last.cache

\* C10 witness: an add with an empty description was refused while the
\* transactions table held rows.
C10_Witness ==
    /\ last.op = "add_transaction"
    /\ last.rec.description = ""
    /\ last.rec.amount > 0
    /\ last.err = "validation"
    /\ Len(files["transactions"].rows) > 0

\* The handlers that write a table.
MutatingOps ==
    {"add_transaction", "add_goal", "add_investment", "update_transaction",
     "delete_transaction", "update_goal", "delete_goal", "update_investment",
     "delete_investment", "save_budget"}

\* C18: in a single-process session, after every UI action that mutates a
\* table completes, the table cached in the session state has the same rows,
\* in the same order and with the same field values, as the persisted table
\* of that kind.
C18_CacheEqualsPersisted ==
    (last.op \in MutatingOps /\ last.err = "none") =>
        session[last.kind].df = Table(files[last.kind])

\* The cached table and the persisted one differ at most in '' against NaN:
\* written out, the cached table is the file.
CacheWritesAsPersisted ==
    (last.op \in MutatingOps /\ last.err = "none") =>
        to_csv(session[last.kind].df) = files[last.kind]

\* The positions, counted from 1, of the rows of table t that satisfy c.
MatchPositions(t, c) ==
    SelectSeq([p \in 1..Len(t) |-> p], LAMBDA p : Satisfies(t[p], c))

-----------------------------------------------------------------------------
(* SpecTags: get_all_tags applied to the transactions table as a session    *)
(* holds it: loaded from the file, or returned by save_transaction.         *)

TagValues == {"", "a, b", "b,c"}

TagRecords ==
    [date : Dates, type : {"Expense"}, category : {categories[1]}, amount : Amounts,
     description : Descriptions, tags : TagValues]

InitTags ==
    /\ files \in {[k \in Kinds |-> IF k = "transactions" THEN to_csv(d) ELSE Missing] :
                    d \in SeqsUpTo(TagRecords, MaxTagRows)}
    /\ last = NoCall
    /\ InitRest

\* st.session_state.transactions = load_transactions()
tags_load ==
    /\ arg_in = <<>>
    /\ arg_in' = <<"loaded">>
    /\ tx_in' = load_transactions(files["transactions"]).df
    /\ UNCHANGED <<files, last, session, pc, local, committed, now, budgets_in,
                   budget_status, result>>

\* st.session_state.transactions = save_transaction(...)
tags_append ==
    /\ arg_in = <<>>
    /\ arg_in' = <<"appended">>
    /\ \E rec \in TagRecords :
         LET out == save_transaction(files["transactions"], rec)
         IN  /\ files' = [files EXCEPT !["transactions"] = out.file]
             /\ tx_in' = out.ret
    /\ UNCHANGED <<last, session, pc, local, committed, now, budgets_in,
                   budget_status, result>>

\* get_all_tags(st.session_state.transactions)
call_get_all_tags ==
    /\ arg_in # <<>>
    /\ ~result.set
    /\ result' = Result("get_all_tags", get_all_tags(tx_in))
    /\ UNCHANGED <<files, last, session, pc, local, committed, now, tx_in, budgets_in,
                   budget_status, arg_in>>

NextTags ==
    \/ tags_load
    \/ tags_append
    \/ call_get_all_tags

SpecTags == InitTags /\ [][NextTags]_vars

\* The tags a table should yield: the stripped pieces of every tags field
\* that is neither missing nor empty.
ExpectedTags(df) ==
    {t \in Vocabulary :
        \E i \in 1..Len(df) :
            /\ df[i].tags # NaN
            /\ df[i].tags # ""
            /\ \E k \in 1..Len(split(Chars(df[i].tags))) :
                 strip(split(Chars(df[i].tags))[k]) = Chars(t)}

\* C14: allTags returns the sorted sequence of the distinct trimmed tags of
\* every non-empty tags field; rows whose tags field is empty or missing
\* contribute nothing (tags "a, b", "b,c", "" give exactly a, b, c), for a
\* table freshly loaded and for the table returned by an append made with
\* empty tags.
C14_AllTagsSortedDistinct ==
    (result.set /\ result.fn = "get_all_tags") =>
        /\ {result.val[i] : i \in 1..Len(result.val)} = ExpectedTags(tx_in)
        /\ Len(result.val) = Cardinality(ExpectedTags(tx_in))
        /\ \A i \in 1..(Len(result.val) - 1) : StrLess(result.val[i], result.val[i + 1])

-----------------------------------------------------------------------------
(* SpecFilter: search_transactions applied to a table as a session holds   *)
(* it, loaded from the file or returned by a store function.               *)

FilterRecords ==
    [date : {20240315, 20240410}, type : Types, category : {categories[1]},
     amount : {0, 50}, description : Descriptions, tags : {"", "a, b"}]

\* One criterion supplied.
OneCriterion ==
    {[NoCriteria EXCEPT !.search_term = "B"],
     [NoCriteria EXCEPT !.start_date = Some(20240410)],
     [NoCriteria EXCEPT !.end_date = Some(20240315)],
     [NoCriteria EXCEPT !.transaction_type = "Income"],
     [NoCriteria EXCEPT !.category = categories[1]],
     [NoCriteria EXCEPT !.min_amount = Some(0)],
     [NoCriteria EXCEPT !.min_amount = Some(50)],
     [NoCriteria EXCEPT !.max_amount = Some(0)],
     [NoCriteria EXCEPT !.max_amount = Some(50)],
     [NoCriteria EXCEPT !.tags = "b"]}

\* The fields of a criteria record.
CriteriaFields == DOMAIN NoCriteria

\* c with the criteria d supplies added to it.
Both(c, d) == [f \in CriteriaFields |-> IF d[f] = NoCriteria[f] THEN c[f] ELSE d[f]]

\* No criterion, one, or two.
Criteria == {NoCriteria} \cup {Both(c, d) : c \in OneCriterion, d \in OneCriterion}

InitFilter ==
    /\ files = [k \in Kinds |-> Missing]
    /\ last = NoCall
    /\ session = [k \in Kinds |-> Unset]
    /\ pc = [p \in Callers |-> "idle"]
    /\ local = [p \in Callers |-> NoLocals]
    /\ committed = Missing
    /\ now = 202403
    /\ budgets_in = <<>>
    /\ budget_status = Unset
    /\ result = NoResult
    /\ \E d \in SeqsUpTo(FilterRecords, MaxFilterRows) : tx_in \in {d, Table(to_csv(d))}
    /\ arg_in \in {<<c>> : c \in Criteria}

call_search_transactions ==
    /\ ~result.set
    /\ result' = Result("search_transactions", search_transactions(tx_in, arg_in[1]))
    /\ UNCHANGED <<files, last, session, pc, local, committed, now, tx_in, budgets_in,
                   budget_status, arg_in>>

NextFilter == call_search_transactions

SpecFilter == InitFilter /\ [][NextFilter]_vars

\* C13: filterTransactions returns exactly the rows of the input table that
\* satisfy every supplied criterion, in their original order, with inclusive
\* date and amount bounds (a bound of 0 included); an omitted criterion
\* excludes nothing, and no criteria give the whole table.
C13_FilterExactlyMatching ==
    (result.set /\ result.fn = "search_transactions") =>
        /\ result.val.err = "none"
        /\ result.val.rows = SelectSeq(tx_in, LAMBDA r : Satisfies(r, arg_in[1]))

\* The filter, when it returns, returns exactly the matching rows in order.
FilterExactWhenReturns ==
    (result.set /\ result.fn = "search_transactions" /\ result.val.err = "none") =>
        result.val.rows = SelectSeq(tx_in, LAMBDA r : Satisfies(r, arg_in[1]))

-----------------------------------------------------------------------------
(* SpecSummary: get_monthly_summary on a transactions table.               *)

SummaryTxRows ==
    [date : {20240301, 20240315, 20240410}, type : Types, category : {categories[1]},
     amount : {1200, 5000}, description : {"rent"}, tags : {NaN}]

InitSummary ==
    /\ files = [k \in Kinds |-> Missing]
    /\ last = NoCall
    /\ session = [k \in Kinds |-> Unset]
    /\ pc = [p \in Callers |-> "idle"]
    /\ local = [p \in Callers |-> NoLocals]
    /\ committed = Missing
    /\ now = 202403
    /\ tx_in \in SeqsUpTo(SummaryTxRows, MaxSummaryRows)
    /\ budgets_in = <<>>
    /\ budget_status = Unset
    /\ arg_in = <<>>
    /\ result = NoResult

call_get_monthly_summary ==
    /\ ~result.set
    /\ result' = Result("get_monthly_summary", get_monthly_summary(tx_in, now))
    /\ UNCHANGED <<files, last, session, pc, local, committed, now, tx_in, budgets_in,
                   budget_status, arg_in>>

NextSummary == call_get_monthly_summary

SpecSummary == InitSummary /\ [][NextSummary]_vars

\* The sum of the amounts of the first k rows of df that are of type t and
\* dated in month m.
RECURSIVE TotalUpTo(_, _, _, _)
TotalUpTo(df, t, m, k) ==
    IF k = 0 THEN 0
    ELSE TotalUpTo(df, t, m, k - 1)
         + (IF df[k].type = t /\ df[k].date \div 100 = m THEN df[k].amount ELSE 0)

\* C15: monthlySummary restricts to the rows dated in the reference month
\* and returns income = sum of the Income amounts, expenses = sum of the
\* Expense amounts, balance = income - expenses; rows of other months never
\* contribute and an empty month yields (0, 0, 0).
C15_MonthlySummary ==
    (result.set /\ result.fn = "get_monthly_summary") =>
        /\ result.val.income = TotalUpTo(tx_in, "Income", now, Len(tx_in))
        /\ result.val.expenses = TotalUpTo(tx_in, "Expense", now, Len(tx_in))
        /\ result.val.balance = result.val.income - result.val.expenses
        /\ (\A i \in 1..Len(tx_in) : tx_in[i].date \div 100 # now) =>
              result.val = [income |-> 0, expenses |-> 0, balance |-> 0]

\* Witness for C15: the summary of (2024-03-01, Income, 5000),
\* (2024-03-15, Expense, 1200) in month 2024-03 is (5000, 1200, 3800).
C15_Witness ==
    /\ result.set /\ result.fn = "get_monthly_summary"
    /\ Len(tx_in) = 2
    /\ tx_in[1].date = 20240301 /\ tx_in[1].type = "Income" /\ tx_in[1].amount = 5000
    /\ tx_in[2].date = 20240315 /\ tx_in[2].type = "Expense" /\ tx_in[2].amount = 1200
    /\ result.val = [income |-> 5000, expenses |-> 1200, balance |-> 3800]

-----------------------------------------------------------------------------
(* SpecPortfolio: get_portfolio_summary on a portfolio table.              *)

PortfolioRows ==
    [investment_type : {"Stocks"}, name : {"acme"}, amount : {0, 500, 1000},
     purchase_date : {20240101}, current_value : {0, 1000, 1200}]

InitPortfolio ==
    /\ files = [k \in Kinds |-> Missing]
    /\ last = NoCall
    /\ session = [k \in Kinds |-> Unset]
    /\ pc = [p \in Callers |-> "idle"]
    /\ local = [p \in Callers |-> NoLocals]
    /\ committed = Missing
    /\ now = 202403
    /\ tx_in = <<>>
    /\ budgets_in = <<>>
    /\ budget_status = Unset
    /\ arg_in \in SeqsUpTo(PortfolioRows, MaxSummaryRows)
    /\ result = NoResult

call_get_portfolio_summary ==
    /\ ~result.set
    /\ result' = Result("get_portfolio_summary", get_portfolio_summary(arg_in))
    /\ UNCHANGED <<files, last, session, pc, local, committed, now, tx_in, budgets_in,
                   budget_status, arg_in>>

NextPortfolio == call_get_portfolio_summary

SpecPortfolio == InitPortfolio /\ [][NextPortfolio]_vars

\* The sum of column col over the first k rows of a table.
RECURSIVE ColumnUpTo(_, _, _)
ColumnUpTo(df, col, k) ==
    IF k = 0 THEN 0 ELSE ColumnUpTo(df, col, k - 1) + df[k][col]

\* C16: portfolioSummary returns totalInvested = sum of amount,
\* totalCurrentValue = sum of current_value, totalReturn = their difference
\* and returnPct = totalReturn/totalInvested*100, with returnPct = 0 whenever
\* totalInvested = 0; on an empty portfolio it returns (0, 0, 0, 0).
C16_PortfolioSummary ==
    (result.set /\ result.fn = "get_portfolio_summary") =>
        LET v == result.val
        IN  /\ v.total_investment = ColumnUpTo(arg_in, "amount", Len(arg_in))
            /\ v.total_current_value = ColumnUpTo(arg_in, "current_value", Len(arg_in))
            /\ v.total_return = v.total_current_value - v.total_investment
            /\ v.return_percentage.den # 0
            /\ v.total_investment # 0 =>
                 v.return_percentage.num * v.total_investment
                    = v.total_return * 100 * v.return_percentage.den
            /\ v.total_investment = 0 => v.return_percentage.num = 0
            /\ arg_in = <<>> =>
                 /\ v.total_investment = 0 /\ v.total_current_value = 0
                 /\ v.total_return = 0 /\ v.return_percentage.num = 0

\* Witness for C16: a portfolio that is not empty, with nothing invested and
\* a positive current value, has return percentage 0.
C16_Witness ==
    /\ result.set /\ result.fn = "get_portfolio_summary"
    /\ arg_in # <<>>
    /\ result.val.total_investment = 0
    /\ result.val.total_return = 1200
    /\ result.val.return_percentage = Frac(0, 1)

-----------------------------------------------------------------------------
(* SpecCharts: the chart builders as main.py calls them, on the tables of   *)
(* the session state.                                                       *)

ChartTxRows ==
    [date : Dates, type : Types, category : {categories[1]}, amount : Amounts,
     description : Descriptions, tags : {NaN}]

\* The tables a session can hold for kind k: loaded from the file, or, for
\* the goals, as returned by the save_goal that wrote the file.
InitCharts ==
    /\ \E t \in SeqsUpTo(ChartTxRows, MaxChartRows),
          g \in SeqsUpTo(GoalRecords, MaxChartRows),
          p \in SeqsUpTo(InvestmentRecords, MaxChartRows),
          b \in {to_csv(<<>>), SeededBudgets} :
         /\ files = [k \in Kinds |->
                       CASE k = "transactions" -> to_csv(t)
                         [] k = "goals" -> to_csv(g)
                         [] k = "portfolio" -> to_csv(p)
                         [] k = "budgets" -> b]
         /\ \E cached \in {g, Table(to_csv(g))} :
              session = [k \in Kinds |->
                           IF k = "goals" THEN Held(cached) ELSE Held(Table(files[k]))]
    /\ last = NoCall
    /\ pc = [c \in Callers |-> "idle"]
    /\ local = [c \in Callers |-> NoLocals]
    /\ committed = Missing
    /\ now = 202403
    /\ tx_in = <<>>
    /\ budgets_in = <<>>
    /\ budget_status = Unset
    /\ arg_in = <<>>
    /\ result = NoResult

\* st.plotly_chart(<builder>(...)): the builder's result is kept in result.
Chart(fn, fig) ==
    /\ ~result.set
    /\ result' = Result(fn, fig)
    /\ UNCHANGED <<files, last, session, pc, local, committed, now, tx_in, budgets_in,
                   budget_status, arg_in>>

chart_category_distribution ==
    Chart("get_category_distribution", get_category_distribution(session["transactions"].df))

chart_monthly_trends ==
    Chart("get_monthly_trends", get_monthly_trends(session["transactions"].df))

chart_budget_vs_actual ==
    Chart("get_budget_vs_actual_chart",
          get_budget_vs_actual_chart(session["transactions"].df, session["budgets"].df, now))

chart_goal_progress ==
    Chart("get_goal_progress_chart", get_goal_progress_chart(session["goals"].df))

\* goal = st.session_state.goals.iloc[edit_goal_index]; get_milestone_chart(goal)
chart_milestone ==
    /\ ~result.set
    /\ \E edit_goal_index \in 0..(Len(session["goals"].df) - 1) :
         LET goal == session["goals"].df[edit_goal_index + 1]
         IN  /\ arg_in' = <<goal>>
             /\ result' = Result("get_milestone_chart", get_milestone_chart(goal))
    /\ UNCHANGED <<files, last, session, pc, local, committed, now, tx_in, budgets_in,
                   budget_status>>

chart_portfolio_summary ==
    Chart("get_portfolio_summary", get_portfolio_summary(session["portfolio"].df).fig)

chart_portfolio_distribution ==
    Chart("get_portfolio_distribution", get_portfolio_distribution(session["portfolio"].df))

NextCharts ==
    \/ chart_category_distribution
    \/ chart_monthly_trends
    \/ chart_budget_vs_actual
    \/ chart_goal_progress
    \/ chart_milestone
    \/ chart_portfolio_summary
    \/ chart_portfolio_distribution

SpecCharts == InitCharts /\ [][NextCharts]_vars

\* The input of the builder that produced result is empty.
EmptyChartInput ==
    \/ /\ result.fn \in {"get_category_distribution", "get_monthly_trends",
                         "get_budget_vs_actual_chart"}
       /\ session["transactions"].df = <<>>
    \/ result.fn = "get_goal_progress_chart" /\ session["goals"].df = <<>>
    \/ result.fn = "get_milestone_chart" /\ arg_in[1].milestones \in {"", NaN}
    \/ /\ result.fn \in {"get_portfolio_summary", "get_portfolio_distribution"}
       /\ session["portfolio"].df = <<>>

\* C17: every chart builder returns the placeholder "no data" chart rather
\* than failing when its input is empty: an empty table, or for the
\* milestone chart a goal with no milestones, a goal saved with an empty
\* milestones field and reloaded from the store included.
C17_EmptyInputPlaceholder ==
    (result.set /\ EmptyChartInput) => result.val.chart = "placeholder"

\* On an empty input no builder other than the milestone chart raises, and
\* no builder other than the budget chart draws a figure.
EmptyInputOtherBuilders ==
    (result.set /\ EmptyChartInput) =>
        /\ result.val.chart = "error" =>
             (result.fn = "get_milestone_chart" /\ arg_in[1].milestones = NaN)
        /\ result.val.chart = "figure" => result.fn = "get_budget_vs_actual_chart"

====
